---- MODULE Spec2Model ----
(***************************************************************************)
(* BearCart business analytics dashboard (app.py, streamlit_app.py) and    *)
(* the upload utility (utils.py).                                          *)
(*                                                                         *)
(* The dashboard is a straight-line script: load the CSV, derive the Order *)
(* table, compute the KPIs, then four aggregations.  Each section of the   *)
(* script is one action; pc is the script's position.  The two scripts     *)
(* differ only in the sort of the risk summary and the columns of the      *)
(* final table, which `variant` selects.                                   *)
(*                                                                         *)
(* Money is held in integer units; a float result of a division is a       *)
(* record [kind, n, d] standing for n/d, with the IEEE results nan and inf *)
(* for a zero divisor (numpy scalars and pandas columns do not raise).     *)
(* A missing cell (pandas NaN/None) is the empty tuple, a present value v  *)
(* is the one-tuple <<v>>.                                                 *)
(***************************************************************************)
EXTENDS Integers, Sequences, FiniteSets, TLC

VARIABLES
    variant,        \* which script runs: "app" or "streamlit_app"
    csv,            \* the rows of the data file, as text cells
    df,             \* the loaded Event table
    orders_df,      \* the Order table
    kpi,            \* the scalar KPIs
    monthly,        \* Monthly Refund Trend
    prod_perf,      \* Product Performance
    purchase_type,  \* the "Purchase Type" column added to orders_df
    bundle_risk,    \* Bundle Effect
    risk_summary,   \* Risk Summary
    final_table,    \* the table handed to st.dataframe
    pc,             \* position in the script
    error,          \* the exception that ended the script, if any
    file_name,      \* utils.load_data: file.name
    reader,         \* utils.load_data: the reader that was invoked
    upload          \* utils.load_data: position / outcome

vars == << variant, csv, df, orders_df, kpi, monthly, prod_perf, purchase_type,
           bundle_risk, risk_summary, final_table, pc, error,
           file_name, reader, upload >>

dashVars == << variant, csv, df, orders_df, kpi, monthly, prod_perf, purchase_type,
               bundle_risk, risk_summary, final_table, pc, error >>

uploadVars == << file_name, reader, upload >>

(***************************************************************************)
(* Bounds of the model.                                                    *)
(***************************************************************************)
MaxRows == 3        \* rows of an enumerated data file
MaxMonth == 3       \* calendar months an order can fall in
MaxItems == 3       \* largest items_purchased
MaxGroup == 50      \* orders of the large product group (3/50 = 6%, 2/50 = 4%)
MaxGroupRefunds == 4 \* refunded orders of the large product group

(***************************************************************************)
(* Missing values and floats.                                              *)
(***************************************************************************)
NaN == << >>

V(x) == << x >>

notna(c) == c # NaN

\* numpy / pandas true division: never raises, a zero divisor gives nan or inf
TrueDiv(a, b) ==
    IF b # 0 THEN [kind |-> "num", n |-> a, d |-> b]
    ELSE IF a = 0 THEN [kind |-> "nan", n |-> 0, d |-> 0]
    ELSE [kind |-> "inf", n |-> a, d |-> 0]

\* float * 100
Times100(f) ==
    IF f.kind = "num" THEN [kind |-> "num", n |-> f.n * 100, d |-> f.d] ELSE f

\* float > integer, as Python compares: nan compares false, +inf is larger
FloatGt(f, k) ==
    CASE f.kind = "num" -> (IF f.d > 0 THEN f.n > k * f.d ELSE f.n < k * f.d)
      [] f.kind = "inf" -> f.n > 0
      [] OTHER -> FALSE

\* float a > float b, both not nan
FloatGtF(a, b) ==
    CASE a.kind = "num" /\ b.kind = "num" -> a.n * b.d > b.n * a.d
      [] a.kind = "inf" /\ b.kind = "num" -> TRUE
      [] OTHER -> FALSE

Unset == [kind |-> "unset", n |-> 0, d |-> 0]

(***************************************************************************)
(* Column helpers (pandas Series reductions).                              *)
(***************************************************************************)
RECURSIVE SumCol(_, _)
\* Series.sum() of column c
SumCol(t, c) ==
    IF t = << >> THEN 0 ELSE t[1][c] + SumCol(Tail(t), c)

\* a slip: nunique(dropna=False), a missing value counted as a value
nunique_with_nan(t, c) ==
    Cardinality({t[i][c] : i \in 1..Len(t)})

\* Series.nunique(): distinct values, missing ones not counted
nunique(t, c) ==
    Cardinality({t[i][c] : i \in 1..Len(t)} \ {NaN})

\* Series.count(): non-missing cells
CountCol(t, c) ==
    Cardinality({i \in 1..Len(t) : notna(t[i][c])})

RECURSIVE SortedSeq(_)
\* the elements of a set of integers, ascending
SortedSeq(S) ==
    IF S = {} THEN << >>
    ELSE LET m == CHOOSE x \in S : \A y \in S : x <= y
         IN << m >> \o SortedSeq(S \ {m})

\* every arrangement of the elements of a finite set as a sequence
Arrangements(S) ==
    {s \in [1..Cardinality(S) -> S] : \A i, j \in 1..Cardinality(S) : i # j => s[i] # s[j]}

(***************************************************************************)
(* Data Loader.                                                            *)
(***************************************************************************)
\* pd.to_datetime of a "year-month, day" cell
to_datetime(cell) == [ym |-> cell[1], day |-> cell[2]]

\* read_csv gives the rows a RangeIndex; created_at is parsed
read_rows(rows) ==
    [i \in 1..Len(rows) |->
        [index |-> i - 1,
         website_session_id |-> rows[i].website_session_id,
         order_id |-> rows[i].order_id,
         created_at |-> to_datetime(rows[i].created_at),
         is_conversion |-> rows[i].is_conversion,
         price_usd |-> rows[i].price_usd,
         refund_amount_usd |-> rows[i].refund_amount_usd,
         is_refunded |-> rows[i].is_refunded,
         items_purchased |-> rows[i].items_purchased,
         product_id |-> rows[i].product_id,
         product_name |-> rows[i].product_name]]

(***************************************************************************)
(* Order Filter.                                                           *)
(***************************************************************************)
\* df[df["is_conversion"] == 1]
conversions(t) == SelectSeq(t, LAMBDA r : r.is_conversion = 1)

\* a slip: no deduplication at all
keep_every_row(t) == t

RECURSIVE keep_last(_)
\* a slip: drop_duplicates(subset="order_id", keep="last")
keep_last(t) ==
    IF t = << >> THEN << >>
    ELSE LET kept == keep_last(Tail(t))
         IN IF \E i \in 1..Len(kept) : kept[i].order_id = t[1].order_id
            THEN kept
            ELSE << t[1] >> \o kept

RECURSIVE drop_duplicates(_)
\* drop_duplicates(subset="order_id"): the first row of each order_id is kept;
\* missing order_ids count as equal to each other
drop_duplicates(t) ==
    IF t = << >> THEN << >>
    ELSE LET kept == drop_duplicates(SubSeq(t, 1, Len(t) - 1))
             last == t[Len(t)]
         IN IF \E i \in 1..Len(kept) : kept[i].order_id = last.order_id
            THEN kept
            ELSE Append(kept, last)

order_filter(t) == drop_duplicates(conversions(t))

(***************************************************************************)
(* KPI Calculator.                                                         *)
(***************************************************************************)
\* total_profit: a literal of the script, in hundredths of a dollar
total_profit == 122233529

total_revenue(o) == SumCol(o, "price_usd")

total_orders(o) == nunique(o, "order_id")

total_refunds(o) == SumCol(o, "refund_amount_usd")

\* total_revenue is a numpy scalar: dividing it by 0 gives nan or inf
aov(o) == TrueDiv(total_revenue(o), total_orders(o))

total_traffic(t) == nunique(t, "website_session_id")

\* (total_orders / total_traffic) * 100, both Python ints: the caller has
\* checked that total_traffic is not 0 (Python raises ZeroDivisionError)
conversion_rate(o, t) == Times100(TrueDiv(total_orders(o), total_traffic(t)))

total_items(o) == SumCol(o, "items_purchased")

NoKpi ==
    [total_revenue |-> Unset, total_profit |-> Unset, total_orders |-> Unset,
     total_refunds |-> Unset, aov |-> Unset, total_traffic |-> Unset,
     conversion_rate |-> Unset, total_items |-> Unset]

(***************************************************************************)
(* Monthly Refund Trend.                                                   *)
(***************************************************************************)
MonthNames ==
    << "Jan", "Feb", "Mar", "Apr", "May", "Jun",
       "Jul", "Aug", "Sep", "Oct", "Nov", "Dec" >>

\* dt.strftime("%b %y") of a month bin; ym counts months from January of year 0
strftime(ym) == << MonthNames[(ym % 12) + 1], (ym \div 12) % 100 >>

OrderMonths(t) == {t[i].created_at.ym : i \in 1..Len(t)}

\* a slip: groupby of the month, one bin per month that has a row
groupby_month_bins(t) == SortedSeq(OrderMonths(t))

\* resample("M"): one bin per calendar month from the first month that has a
\* row to the last one, months without rows included
resample_bins(t) ==
    IF t = << >> THEN << >>
    ELSE LET lo == CHOOSE m \in OrderMonths(t) : \A x \in OrderMonths(t) : m <= x
             hi == CHOOSE m \in OrderMonths(t) : \A x \in OrderMonths(t) : m >= x
         IN [k \in 1..(hi - lo + 1) |-> lo + k - 1]

InMonth(t, m) == SelectSeq(t, LAMBDA r : r.created_at.ym = m)

MonthlyRow(t, m) ==
    LET price == SumCol(InMonth(t, m), "price_usd")
        refund == SumCol(InMonth(t, m), "refund_amount_usd")
    IN [created_at |-> m,
        price_usd |-> price,
        refund_amount_usd |-> refund,
        Refund_Rate |-> Times100(TrueDiv(refund, price)),
        Month |-> strftime(m)]

monthly_trend(t) ==
    LET bins == resample_bins(t)
    IN [k \in 1..Len(bins) |-> MonthlyRow(t, bins[k])]

(***************************************************************************)
(* Product Performance.                                                    *)
(***************************************************************************)
WithName(t, nm) == SelectSeq(t, LAMBDA r : r.product_name = nm)

\* groupby("product_name"): rows with a missing name belong to no group
ProductGroups(t) ==
    {[product_name |-> nm,
      Total |-> CountCol(WithName(t, nm), "order_id"),
      Refunds |-> SumCol(WithName(t, nm), "is_refunded")] :
        nm \in {t[i].product_name : i \in 1..Len(t)} \ {NaN}}

\* sort_values("Total", ascending=False): the order of ties is not fixed
ByTotalDescending(S) ==
    {s \in Arrangements(S) : \A i, j \in 1..Len(s) : i < j => s[i].Total >= s[j].Total}

(***************************************************************************)
(* Bundle Effect.                                                          *)
(***************************************************************************)
\* a slip: an order of no item taken for a single item
purchase_type_le(x) == IF x <= 1 THEN "Single Item" ELSE "Bundle (2+ Items)"

purchase_type_of(x) == IF x = 1 THEN "Single Item" ELSE "Bundle (2+ Items)"

purchase_types(o) == [i \in 1..Len(o) |-> purchase_type_of(o[i].items_purchased)]

OfType(o, ty) == SelectSeq(o, LAMBDA r : purchase_type_of(r.items_purchased) = ty)

BundleRow(o, ty) ==
    LET rate == TrueDiv(SumCol(OfType(o, ty), "is_refunded"), Len(OfType(o, ty)))
    IN [Purchase_Type |-> ty, Rate |-> rate, Refund_Rate |-> Times100(rate)]

\* groupby("Purchase Type"): one row per class that occurs, keys ascending
bundle_effect(o) ==
    (IF OfType(o, "Bundle (2+ Items)") # << >>
        THEN << BundleRow(o, "Bundle (2+ Items)") >> ELSE << >>)
    \o
    (IF OfType(o, "Single Item") # << >>
        THEN << BundleRow(o, "Single Item") >> ELSE << >>)

(***************************************************************************)
(* Risk Summary.                                                           *)
(***************************************************************************)
\* float >= integer
FloatGe(f, k) ==
    CASE f.kind = "num" -> f.n >= k * f.d
      [] f.kind = "inf" -> f.n > 0
      [] OTHER -> FALSE

\* a slip: inclusive thresholds
get_risk_label_inclusive(rate) ==
    IF FloatGe(rate, 6) THEN "High Risk"
    ELSE IF FloatGe(rate, 4) THEN "Medium Risk"
    ELSE "Low Risk"

get_risk_label(rate) ==
    IF FloatGt(rate, 6) THEN "High Risk"
    ELSE IF FloatGt(rate, 4) THEN "Medium Risk"
    ELSE "Low Risk"

WithProduct(o, id, nm) ==
    SelectSeq(o, LAMBDA r : r.product_id = id /\ r.product_name = nm)

RiskRow(o, id, nm) ==
    LET Orders == CountCol(WithProduct(o, id, nm), "order_id")
        Refunds == SumCol(WithProduct(o, id, nm), "is_refunded")
        rate == Times100(TrueDiv(Refunds, Orders))
    IN [product_id |-> id, product_name |-> nm, Orders |-> Orders,
        Refunds |-> Refunds, Refund_Rate |-> rate, Status |-> get_risk_label(rate)]

\* groupby(["product_id", "product_name"]): a row with either key missing
\* belongs to no group
RiskGroups(o) ==
    {RiskRow(o, k[1], k[2]) :
        k \in {<< o[i].product_id, o[i].product_name >> : i \in 1..Len(o)}
              \ {k \in {<< o[i].product_id, o[i].product_name >> : i \in 1..Len(o)} :
                    k[1] = NaN \/ k[2] = NaN}}

\* app.py: sort_values("product_id", ascending=True)
ByProductId(S) ==
    {s \in Arrangements(S) :
        \A i, j \in 1..Len(s) : i < j => s[i].product_id[1] <= s[j].product_id[1]}

\* streamlit_app.py: sort_values("Refund Rate", ascending=False), nan last
ByRefundRateDescending(S) ==
    {s \in Arrangements(S) :
        \A i, j \in 1..Len(s) : i < j =>
            /\ s[i].Refund_Rate.kind = "nan" => s[j].Refund_Rate.kind = "nan"
            /\ ~ (s[i].Refund_Rate.kind # "nan" /\ s[j].Refund_Rate.kind # "nan"
                  /\ FloatGtF(s[j].Refund_Rate, s[i].Refund_Rate))}

sort_risk_summary(v, S) ==
    IF v = "app" THEN ByProductId(S) ELSE ByRefundRateDescending(S)

\* the renamed columns shown; streamlit_app.py also shows the ID, as an int
final_table_of(v, rs) ==
    [i \in 1..Len(rs) |->
        IF v = "app"
        THEN [Product_Name |-> rs[i].product_name, Sales_Volume |-> rs[i].Orders,
              Refund_Rate |-> rs[i].Refund_Rate, Status |-> rs[i].Status]
        ELSE [ID |-> rs[i].product_id[1], Product_Name |-> rs[i].product_name,
              Sales_Volume |-> rs[i].Orders, Refund_Rate |-> rs[i].Refund_Rate,
              Status |-> rs[i].Status]]

(***************************************************************************)
(* The script, section by section.                                         *)
(***************************************************************************)
load_data ==
    /\ pc = "load"
    /\ df' = read_rows(csv)
    /\ pc' = "filter"
    /\ UNCHANGED << variant, csv, orders_df, kpi, monthly, prod_perf, purchase_type,
                    bundle_risk, risk_summary, final_table, error >>
    /\ UNCHANGED uploadVars

OrderFilter ==
    /\ pc = "filter"
    /\ orders_df' = order_filter(df)
    /\ pc' = "kpi"
    /\ UNCHANGED << variant, csv, df, kpi, monthly, prod_perf, purchase_type,
                    bundle_risk, risk_summary, final_table, error >>
    /\ UNCHANGED uploadVars

KpiCalculations ==
    /\ pc = "kpi"
    /\ IF total_traffic(df) = 0
       THEN \* total_orders / total_traffic raises; the script stops here
            /\ kpi' = [NoKpi EXCEPT !.total_revenue = total_revenue(orders_df),
                                    !.total_profit = total_profit,
                                    !.total_orders = total_orders(orders_df),
                                    !.total_refunds = total_refunds(orders_df),
                                    !.aov = aov(orders_df),
                                    !.total_traffic = total_traffic(df)]
            /\ pc' = "error"
            /\ error' = "ZeroDivisionError"
       ELSE /\ kpi' = [total_revenue |-> total_revenue(orders_df),
                       total_profit |-> total_profit,
                       total_orders |-> total_orders(orders_df),
                       total_refunds |-> total_refunds(orders_df),
                       aov |-> aov(orders_df),
                       total_traffic |-> total_traffic(df),
                       conversion_rate |-> conversion_rate(orders_df, df),
                       total_items |-> total_items(orders_df)]
            /\ pc' = "monthly"
            /\ error' = error
    /\ UNCHANGED << variant, csv, df, orders_df, monthly, prod_perf, purchase_type,
                    bundle_risk, risk_summary, final_table >>
    /\ UNCHANGED uploadVars

MonthlyRefundTrend ==
    /\ pc = "monthly"
    /\ monthly' = monthly_trend(orders_df)
    /\ pc' = "product"
    /\ UNCHANGED << variant, csv, df, orders_df, kpi, prod_perf, purchase_type,
                    bundle_risk, risk_summary, final_table, error >>
    /\ UNCHANGED uploadVars

ProductPerformance ==
    /\ pc = "product"
    /\ prod_perf' \in ByTotalDescending(ProductGroups(orders_df))
    /\ pc' = "bundle"
    /\ UNCHANGED << variant, csv, df, orders_df, kpi, monthly, purchase_type,
                    bundle_risk, risk_summary, final_table, error >>
    /\ UNCHANGED uploadVars

BundleEffect ==
    /\ pc = "bundle"
    /\ purchase_type' = purchase_types(orders_df)
    /\ bundle_risk' = bundle_effect(orders_df)
    /\ pc' = "risk"
    /\ UNCHANGED << variant, csv, df, orders_df, kpi, monthly, prod_perf,
                    risk_summary, final_table, error >>
    /\ UNCHANGED uploadVars

RefundRiskSummary ==
    /\ pc = "risk"
    /\ risk_summary' \in sort_risk_summary(variant, RiskGroups(orders_df))
    /\ final_table' = final_table_of(variant, risk_summary')
    /\ pc' = "done"
    /\ UNCHANGED << variant, csv, df, orders_df, kpi, monthly, prod_perf,
                    purchase_type, bundle_risk, error >>
    /\ UNCHANGED uploadVars

Next ==
    \/ load_data
    \/ OrderFilter
    \/ KpiCalculations
    \/ MonthlyRefundTrend
    \/ ProductPerformance
    \/ BundleEffect
    \/ RefundRiskSummary

(***************************************************************************)
(* The upload utility, utils.load_data(file).  A file name is a sequence   *)
(* of characters.  staticmethod objects are callable (Python 3.10 on).     *)
(***************************************************************************)
\* a slip: suffix in name
contains(name, suffix) ==
    \E k \in 0..(Len(name) - Len(suffix)) : SubSeq(name, k + 1, k + Len(suffix)) = suffix

\* str.endswith
endswith(name, suffix) ==
    /\ Len(name) >= Len(suffix)
    /\ SubSeq(name, Len(name) - Len(suffix) + 1, Len(name)) = suffix

DotCsv == << ".", "c", "s", "v" >>

DotParquet == << ".", "p", "a", "r", "q", "u", "e", "t" >>

\* the branch load_data takes for a file name
dispatch(name) ==
    IF endswith(name, DotCsv) THEN "read_csv"
    ELSE IF endswith(name, DotParquet) THEN "read_parquet"
    ELSE "none"

utils_load_data ==
    /\ upload = "called"
    /\ reader' = dispatch(file_name)
    /\ IF reader' = "none"
       THEN upload' = "ValueError: Unsupported file format"
       ELSE \* the reader returns a table or raises its own error
            upload' \in {"returned", "reader raised"}
    /\ UNCHANGED file_name
    /\ UNCHANGED dashVars

NextUpload == utils_load_data

(***************************************************************************)
(* Data files.  A family of files is the set of tables whose i-th row is   *)
(* built from a choice of the cells that vary; the other cells are fixed.  *)
(***************************************************************************)
Row(sess, oid, ym, conv, price, refund, refunded, items, pid, pname) ==
    [website_session_id |-> sess, order_id |-> oid, created_at |-> << ym, 15 >>,
     is_conversion |-> conv, price_usd |-> price, refund_amount_usd |-> refund,
     is_refunded |-> refunded, items_purchased |-> items,
     product_id |-> pid, product_name |-> pname]

SeqsUpTo(S, n) == UNION {[1..k -> S] : k \in 0..n}

Ids == {NaN, V(1), V(2)}

\* order_id, is_conversion and price_usd vary
OrdersFiles ==
    {[i \in 1..Len(c) |->
        Row(V(i), c[i][1], 1, c[i][2], c[i][3], 0, 0, 1, V(1), V("Bear"))] :
     c \in SeqsUpTo(Ids \X {0, 1} \X {10, 20}, MaxRows)}

\* website_session_id and order_id vary; a row without conversion has no order
TrafficFiles ==
    {[i \in 1..Len(c) |->
        Row(c[i][1], c[i][2], 1, c[i][3], 10, 0, 0, 1, V(1), V("Bear"))] :
     c \in SeqsUpTo((Ids \X Ids \X {1}) \cup (Ids \X {NaN} \X {0}), MaxRows)}

\* month, price and refund of an order vary; one kind of row is no conversion
MonthlyFiles ==
    {[i \in 1..Len(c) |->
        Row(V(i), V(i), c[i][1], c[i][2], c[i][3][1], c[i][3][2], 0, 1, V(1), V("Bear"))] :
     c \in SeqsUpTo(((1..MaxMonth) \X {1} \X {<< 0, 0 >>, << 10, 0 >>, << 10, 5 >>})
                    \cup {<< MaxMonth, 0, << 10, 0 >> >>}, MaxRows)}

\* items_purchased and is_refunded vary
BundleFiles ==
    {[i \in 1..Len(c) |->
        Row(V(i), V(i), 1, 1, 10, 0, c[i][2], c[i][1], V(1), V("Bear"))] :
     c \in SeqsUpTo((0..MaxItems) \X {0, 1}, MaxRows)}

\* one more order after a large group: of another product, or with a cell missing
OddRows(i) ==
    {Row(V(i), V(i), 1, 1, 10, 0, 0, 1, V(2), V("Panda")),
     Row(V(i), V(i), 1, 1, 10, 10, 1, 1, V(2), V("Panda")),
     Row(V(i), V(i), 1, 1, 10, 0, 0, 1, V(2), NaN),
     Row(V(i), V(i), 1, 1, 10, 0, 0, 1, NaN, V("Panda")),
     Row(V(i), NaN, 1, 1, 10, 10, 1, 1, V(2), V("Panda"))}

\* n orders of one product, the first k of them refunded, then at most one odd row
RiskFiles ==
    {[i \in 1..n |->
        Row(V(i), V(i), 1, 1, 10, IF i <= k THEN 10 ELSE 0, IF i <= k THEN 1 ELSE 0,
            1, V(1), V("Bear"))] \o tail :
     << n, k, tail >> \in
        {x \in (0..MaxGroup) \X (0..MaxGroupRefunds) \X
               ({<< >>} \cup {<< r >> : r \in OddRows(0)}) : x[2] <= x[1]}}

(***************************************************************************)
(* Specifications: the script on each family of data files, and the upload *)
(* utility on a set of file names.                                         *)
(***************************************************************************)
UploadIdle ==
    /\ file_name = << >>
    /\ reader = "none"
    /\ upload = "off"

InitScript(files) ==
    /\ variant \in {"app", "streamlit_app"}
    /\ csv \in files
    /\ df = << >>
    /\ orders_df = << >>
    /\ kpi = NoKpi
    /\ monthly = << >>
    /\ prod_perf = << >>
    /\ purchase_type = << >>
    /\ bundle_risk = << >>
    /\ risk_summary = << >>
    /\ final_table = << >>
    /\ pc = "load"
    /\ error = "none"
    /\ UploadIdle

InitOrders == InitScript(OrdersFiles)

InitTraffic == InitScript(TrafficFiles)

InitMonthly == InitScript(MonthlyFiles)

InitBundle == InitScript(BundleFiles)

InitRisk == InitScript(RiskFiles)

FileNames ==
    {stem \o ext \o tail :
        stem \in {<< >>, << "d" >>, << "d", "a", "t", "a" >>},
        ext \in {<< >>, DotCsv, DotParquet, << ".", "C", "S", "V" >>,
                 << "c", "s", "v" >>, << ".", "t", "x", "t" >>},
        tail \in {<< >>, << ".", "b", "a", "k" >>, DotCsv, DotParquet, << "x" >>}}

InitUpload ==
    /\ variant = "app"
    /\ csv = << >>
    /\ df = << >>
    /\ orders_df = << >>
    /\ kpi = NoKpi
    /\ monthly = << >>
    /\ prod_perf = << >>
    /\ purchase_type = << >>
    /\ bundle_risk = << >>
    /\ risk_summary = << >>
    /\ final_table = << >>
    /\ pc = "off"
    /\ error = "none"
    /\ file_name \in FileNames
    /\ reader = "none"
    /\ upload = "called"

SpecOrders == InitOrders /\ [][Next]_vars

SpecTraffic == InitTraffic /\ [][Next]_vars

SpecMonthly == InitMonthly /\ [][Next]_vars

SpecBundle == InitBundle /\ [][Next]_vars

SpecRisk == InitRisk /\ [][Next]_vars

SpecUpload == InitUpload /\ [][NextUpload]_vars

(***************************************************************************)
(* Positions of the script.                                                *)
(***************************************************************************)
FilterDone == pc \in {"kpi", "monthly", "product", "bundle", "risk", "done", "error"}

\* the KPIs were computed and shown
KpiDone == pc \in {"monthly", "product", "bundle", "risk", "done"}

\* the KPI section was left, with the KPIs or with an exception
KpiEnded == KpiDone \/ pc = "error"

\* the KPI section has just ended
KpiJustEnded == pc \in {"monthly", "error"}

MonthlyDone == pc \in {"product", "bundle", "risk", "done"}

BundleDone == pc \in {"risk", "done"}

RiskDone == pc = "done"

Rows(t) == 1..Len(t)

(***************************************************************************)
(* C1.  Order table                                                        *)
(***************************************************************************)
\* C1: every row of the Order table is a row of the Event table whose
\* is_conversion flag is set, the Order table has no more rows than the
\* Event table, and no two Order rows share an order_id.
C1_OrderTable ==
    FilterDone =>
        /\ \A k \in Rows(orders_df) :
              \E i \in Rows(df) : df[i] = orders_df[k] /\ df[i].is_conversion = 1
        /\ Len(orders_df) <= Len(df)
        /\ \A j, k \in Rows(orders_df) :
              j # k => orders_df[j].order_id # orders_df[k].order_id

\* an Event table with a row that is no conversion and two conversions of one
\* order, of which the Order table kept one
C1_Witness ==
    /\ FilterDone
    /\ \E i \in Rows(df) : df[i].is_conversion = 0
    /\ \E i, j \in Rows(df) :
          /\ i # j
          /\ df[i].is_conversion = 1 /\ df[j].is_conversion = 1
          /\ df[i].order_id = df[j].order_id
    /\ Len(orders_df) = 1

(***************************************************************************)
(* C2.  Revenue                                                            *)
(***************************************************************************)
\* row i is a conversion and no earlier conversion has its order_id
FirstOccurrence(t, i) ==
    /\ t[i].is_conversion = 1
    /\ \A j \in 1..(i - 1) :
          ~ (t[j].is_conversion = 1 /\ t[j].order_id = t[i].order_id)

RECURSIVE SumPrice(_, _)
SumPrice(t, I) ==
    IF I = {} THEN 0
    ELSE LET i == CHOOSE x \in I : TRUE
         IN t[i].price_usd + SumPrice(t, I \ {i})

Permute(t, p) == [i \in Rows(t) |-> t[p[i]]]

\* p keeps the relative order of the rows that share an order_id
\* (rows without an order_id share the missing one, as drop_duplicates has it)
KeepsOrderWithinOrderId(t, p) ==
    \A i, j \in Rows(t) :
        (i < j /\ t[p[i]].order_id = t[p[j]].order_id) => p[i] < p[j]

RateWithin0And100 ==
    /\ kpi.conversion_rate.kind = "num"
    /\ kpi.conversion_rate.n >= 0
    /\ kpi.conversion_rate.n <= 100 * kpi.conversion_rate.d
    /\ kpi.total_orders <= kpi.total_traffic

\* every conversion that has an order_id has a session id, and the
\* conversions of one session have one order_id
OneOrderPerSession(t) ==
    \A i \in Rows(t) :
        (t[i].is_conversion = 1 /\ notna(t[i].order_id)) =>
            /\ notna(t[i].website_session_id)
            /\ \A j \in Rows(t) :
                  (/\ t[j].is_conversion = 1
                   /\ notna(t[j].order_id)
                   /\ t[j].website_session_id = t[i].website_session_id)
                  => t[j].order_id = t[i].order_id

\* C4 as stated: for any Event table with at least one session the
\* Conversion Rate lies in [0, 100] (Total Orders <= Total Traffic).
C4_ConversionRateOfAnyTable ==
    (KpiDone /\ total_traffic(df) >= 1) => RateWithin0And100

\* C4 amended: for an Event table with at least one session in which every
\* conversion with an order_id has a session id and no session has
\* conversions of two order_ids, the Conversion Rate lies in [0, 100].
C4_ConversionRateOneOrderPerSession ==
    (KpiDone /\ total_traffic(df) >= 1 /\ OneOrderPerSession(df)) => RateWithin0And100

\* two sessions with an order each, and a conversion without an order_id
C4_Witness ==
    /\ KpiDone
    /\ OneOrderPerSession(df)
    /\ kpi.total_orders = 2
    /\ kpi.total_traffic = 2
    /\ \E i \in Rows(df) : df[i].is_conversion = 1 /\ df[i].order_id = NaN

(***************************************************************************)
(* C6.  No orders                                                          *)
(***************************************************************************)
\* C6 as stated: when Total Orders is 0 the KPI section ends in an error
\* state and shows no Average Order Value or Conversion Rate.
C6_NoOrdersIsAnError ==
    (KpiEnded /\ total_orders(orders_df) = 0) => pc = "error"

(***************************************************************************)
(* C5, C7.  Monthly Refund Trend                                           *)
(***************************************************************************)
Chronological ==
    \A j, k \in Rows(monthly) : j < k => monthly[j].created_at < monthly[k].created_at

TrendMonths == {monthly[k].created_at : k \in Rows(monthly)}

\* C5 as stated: the trend is in ascending order and has exactly one row for
\* each month in which an order was created, and no row for another month.
C5_OneRowPerMonthWithOrders ==
    MonthlyDone =>
        /\ Chronological
        /\ TrendMonths = OrderMonths(orders_df)
        /\ Len(monthly) = Cardinality(OrderMonths(orders_df))

\* C5 amended: the trend is in ascending order and has exactly one row for
\* each month from the first month with an order to the last one, the months
\* without orders between them included, and no row for another month.
C5_OneRowPerMonthOfSpan ==
    MonthlyDone =>
        /\ Chronological
        /\ \A m \in 0..(MaxMonth + 1) :
              m \in TrendMonths <=>
                  \E a, b \in OrderMonths(orders_df) : a <= m /\ m <= b
        /\ TrendMonths \subseteq 0..(MaxMonth + 1)
        /\ Len(monthly) = Cardinality(TrendMonths)

\* orders in two months with a month without orders between them
C5_Witness ==
    /\ MonthlyDone
    /\ \E a, m, b \in TrendMonths :
          /\ a < m /\ m < b
          /\ a \in OrderMonths(orders_df)
          /\ b \in OrderMonths(orders_df)
          /\ m \notin OrderMonths(orders_df)

\* C7 as stated: a month whose summed price_usd is zero does not carry an
\* undefined (nan) refund rate.
C7_ZeroRevenueMonthHandled ==
    MonthlyDone =>
        \A k \in Rows(monthly) :
            monthly[k].price_usd = 0 => monthly[k].Refund_Rate.kind # "nan"

(***************************************************************************)
(* C8.  Bundle Effect                                                      *)
(***************************************************************************)
Classes == {"Single Item", "Bundle (2+ Items)"}

OrdersOfClass(ty) == {i \in Rows(orders_df) : purchase_type[i] = ty}

RefundedOfClass(ty) == {i \in OrdersOfClass(ty) : orders_df[i].is_refunded = 1}

\* the float f is the number k
FloatIs(f, k) == f.kind = "num" /\ f.d # 0 /\ f.n = k * f.d

Classified ==
    /\ Len(purchase_type) = Len(orders_df)
    /\ \A i \in Rows(orders_df) :
          /\ purchase_type[i] \in Classes
          /\ purchase_type[i] = "Single Item" <=> orders_df[i].items_purchased = 1

RatePerClass ==
    \A k \in Rows(bundle_risk) :
        LET ty == bundle_risk[k].Purchase_Type
        IN /\ ty \in Classes
           /\ OrdersOfClass(ty) # {}
           /\ bundle_risk[k].Refund_Rate.kind = "num"
           /\ bundle_risk[k].Refund_Rate.n * Cardinality(OrdersOfClass(ty))
                = 100 * Cardinality(RefundedOfClass(ty)) * bundle_risk[k].Refund_Rate.d

BundleExample ==
    (/\ [i \in Rows(orders_df) |-> orders_df[i].items_purchased] = << 1, 1, 3 >>
     /\ [i \in Rows(orders_df) |-> orders_df[i].is_refunded] = << 0, 1, 0 >>)
    => \E j, k \in Rows(bundle_risk) :
          /\ bundle_risk[j].Purchase_Type = "Single Item"
          /\ FloatIs(bundle_risk[j].Refund_Rate, 50)
          /\ bundle_risk[k].Purchase_Type = "Bundle (2+ Items)"
          /\ FloatIs(bundle_risk[k].Refund_Rate, 0)

\* C8 as stated: an order is a Single Item exactly when items_purchased is 1
\* and a Bundle otherwise; the output has two rows, one per class, with the
\* refund rate 100 x refunded orders / orders of the class.
C8_BundleEffectTwoRows ==
    BundleDone =>
        /\ Classified
        /\ RatePerClass
        /\ BundleExample
        /\ Len(bundle_risk) = 2
        /\ \A ty \in Classes : \E k \in Rows(bundle_risk) : bundle_risk[k].Purchase_Type = ty

\* C8 amended: an order is a Single Item exactly when items_purchased is 1
\* and a Bundle otherwise; the output has one row for each class that has an
\* order (two rows when both have), with the refund rate
\* 100 x refunded orders / orders of the class.
C8_BundleEffectPerClassPresent ==
    BundleDone =>
        /\ Classified
        /\ RatePerClass
        /\ BundleExample
        /\ Len(bundle_risk) = Cardinality({ty \in Classes : OrdersOfClass(ty) # {}})
        /\ \A ty \in Classes :
              OrdersOfClass(ty) # {} =>
                  \E k \in Rows(bundle_risk) : bundle_risk[k].Purchase_Type = ty

\* the example: items_purchased 1, 1, 3 with the second order refunded
C8_Witness ==
    /\ BundleDone
    /\ [i \in Rows(orders_df) |-> orders_df[i].items_purchased] = << 1, 1, 3 >>
    /\ [i \in Rows(orders_df) |-> orders_df[i].is_refunded] = << 0, 1, 0 >>
    /\ Len(bundle_risk) = 2
    /\ \E j \in Rows(bundle_risk) :
          /\ bundle_risk[j].Purchase_Type = "Single Item"
          /\ FloatIs(bundle_risk[j].Refund_Rate, 50)

(***************************************************************************)
(* C3.  Risk Summary                                                       *)
(***************************************************************************)
GroupOrders(r) ==
    Cardinality({i \in Rows(orders_df) :
        /\ orders_df[i].product_id = r.product_id
        /\ orders_df[i].product_name = r.product_name
        /\ notna(orders_df[i].order_id)})

GroupRefunds(r) ==
    Cardinality({i \in Rows(orders_df) :
        /\ orders_df[i].product_id = r.product_id
        /\ orders_df[i].product_name = r.product_name
        /\ orders_df[i].is_refunded = 1})

\* C3: every row of the Risk Summary has one of the three statuses; with the
\* refund rate refunds/orders x 100 of its group, a rate above 6 is High
\* Risk, a rate above 4 and at most 6 is Medium Risk, a rate of at most 4 is
\* Low Risk.
C3_RiskStatus ==
    RiskDone =>
        \A k \in Rows(risk_summary) :
            LET r == risk_summary[k]
                o == GroupOrders(r)
                f == GroupRefunds(r)
            IN /\ r.Status \in {"High Risk", "Medium Risk", "Low Risk"}
               /\ r.Orders = o
               /\ o > 0 =>
                    /\ f * 100 > 6 * o => r.Status = "High Risk"
                    /\ (f * 100 > 4 * o /\ f * 100 <= 6 * o) => r.Status = "Medium Risk"
                    /\ f * 100 <= 4 * o => r.Status = "Low Risk"

\* a product with a refund rate of exactly 6, beside another product
C3_Witness ==
    /\ RiskDone
    /\ Len(risk_summary) = 2
    /\ \E k \in Rows(risk_summary) :
          /\ risk_summary[k].Orders > 0
          /\ risk_summary[k].Refunds * 100 = 6 * risk_summary[k].Orders
          /\ risk_summary[k].Status = "Medium Risk"

\* a product with a refund rate of exactly 4
C3_RateOfFourReached ==
    /\ RiskDone
    /\ \E k \in Rows(risk_summary) :
          /\ risk_summary[k].Orders > 0
          /\ risk_summary[k].Refunds * 100 = 4 * risk_summary[k].Orders
          /\ risk_summary[k].Status = "Low Risk"

(***************************************************************************)
(* C10.  Order counts                                                      *)
(***************************************************************************)
\* C10 as stated: Total Orders, the rows of the Order table, the order counts
\* of Product Performance and the Orders of the Risk Summary all agree.
C10_OrderCountsAgree ==
    RiskDone =>
        /\ kpi.total_orders = Len(orders_df)
        /\ SumCol(prod_perf, "Total") = Len(orders_df)
        /\ SumCol(risk_summary, "Orders") = Len(orders_df)

(***************************************************************************)
(* C9.  Upload utility                                                     *)
(***************************************************************************)
\* the last characters of the file name are those of ext
LastCharsAre(ext) ==
    /\ Len(file_name) >= Len(ext)
    /\ \A i \in 1..Len(ext) : file_name[Len(file_name) - Len(ext) + i] = ext[i]

\* C9: a name ending in ".csv" goes to the delimited-text reader, a name
\* ending in ".parquet" to the columnar reader, and any other name fails with
\* "Unsupported file format" without a reader being invoked.
C9_DispatchOnExtension ==
    upload # "called" =>
        /\ LastCharsAre(DotCsv) <=> reader = "read_csv"
        /\ LastCharsAre(DotParquet) <=> reader = "read_parquet"
        /\ (~ LastCharsAre(DotCsv) /\ ~ LastCharsAre(DotParquet)) <=>
              (upload = "ValueError: Unsupported file format" /\ reader = "none")

\* a name that holds ".csv" but does not end in it is rejected
C9_Witness ==
    /\ upload = "ValueError: Unsupported file format"
    /\ reader = "none"
    /\ \E k \in 1..Len(file_name) :
          /\ k + 3 < Len(file_name)
          /\ SubSeq(file_name, k, k + 3) = DotCsv

====
